---- MODULE Spec2Model ----
(***************************************************************************)
(* Model of streamlit/dashboard.py: one render pass of the MLOps dashboard *)
(* is a straight-line script that issues nine queries through one session  *)
(* and appends widgets to the rendered view.  The warehouse is owned by    *)
(* external jobs; SQL leaves the order of rows unspecified wherever ORDER  *)
(* BY does not decide it, so a query denotes a SET of possible results.    *)
(***************************************************************************)
EXTENDS Integers, Sequences, FiniteSets, TLC

VARIABLES
    warehouse,  \* the seven warehouse tables (owned by external jobs)
    pc,         \* position of the script: "idle", a query name, "done", "error"
    inflight,   \* queries issued through the session and not yet returned
    locals,     \* the script's result variables (prod_model, model_df, ...)
    log,        \* queries issued so far in the current pass, in order
    view,       \* widgets rendered so far in the current pass, in order
    pass,       \* number of render passes started
    changes,    \* number of external warehouse changes so far
    passEpoch,  \* value of changes when the current pass started
    raised,     \* the query whose exception reached the host in this pass, or ""
    prev        \* view and epoch of the previous pass, if it completed

vars ==
    <<warehouse, pc, inflight, locals, log, view, pass, changes, passEpoch, raised, prev>>

\* ---------------------------------------------------------------- bounds
MaxRows == 11      \* rows in the largest table contents explored
MaxPasses == 2     \* render passes explored
MaxChanges == 1    \* external warehouse changes explored

\* ------------------------------------------------------- program constants
Limit10 == 10
Limit1 == 1

\* -------------------------------------------------------------- utilities
Min(a, b) == IF a < b THEN a ELSE b

Range(s) == {s[i] : i \in 1..Len(s)}

Last(s) == s[Len(s)]

\* ------------------------------------------------------ warehouse contents
Tables == {"MODEL_REGISTRY", "RAW_SALES", "FEATURE_STORE", "DRIFT_METRICS",
           "MODEL_COMPARISON_LOG", "PIPELINE_RUNS", "PIPELINE_RUN_LOG"}

\* A MAE is a decimal number with one fractional digit: whole + tenths/10.
Mae(w, t) == [whole |-> w, tenths |-> t]

RegistryRow(i, status, date, mae) ==
    [MODEL_VERSION |-> "v" \o ToString(i), MODEL_TYPE |-> "PROPHET", STATUS |-> status,
     TRAINING_DATE |-> date, MAE |-> mae, RMSE |-> mae, MAPE |-> 5, NOTES |-> ""]

DriftRow(i, date, metric, status) ==
    [CHECK_DATE |-> date, METRIC_NAME |-> metric, BASELINE_VALUE |-> 100,
     CURRENT_VALUE |-> 100 + i, DRIFT_SCORE |-> i, DRIFT_STATUS |-> status]

ComparisonRow(i, date) ==
    [COMPARISON_DATE |-> date, PRODUCTION_MODEL_VERSION |-> "v" \o ToString(i),
     CANDIDATE_MODEL_VERSION |-> "v" \o ToString(i + 1), PRODUCTION_MAE |-> Mae(1200, 0),
     CANDIDATE_MAE |-> Mae(1100, 5), IMPROVEMENT_PERCENT |-> 8, DECISION |-> "PROMOTE",
     DECISION_REASON |-> ""]

RunRow(i, time) ==
    [RUN_TIME |-> time, PHASE |-> "TRAIN", STATUS |-> "SUCCESS", RECORDS_PROCESSED |-> 1000 * i]

RunLogRow(i, time) ==
    [RUN_TIME |-> time, NEW_ROWS |-> 100 * i, TRIGGER_TYPE |-> "STREAM"]

\* Timestamps of the large contents: distinct, except that the rows that are
\* 10th and 11th by recency tie.
Stamp(i) == IF i = MaxRows - Limit10 THEN i + 1 ELSE i

DriftStatuses == {"NORMAL", "BASELINE", "WARNING", "CRITICAL", "UNKNOWN"}

RegistryContents ==
    { {},
      {RegistryRow(1, "PRODUCTION", 1, Mae(1234567, 0))},
      {RegistryRow(1, "ARCHIVED", 1, Mae(1234, 4)),
       RegistryRow(2, "ARCHIVED", 2, Mae(12, 6))},
      {RegistryRow(1, "PRODUCTION", 1, Mae(999, 5)),
       RegistryRow(2, "PRODUCTION", 2, Mae(0, 5)),
       RegistryRow(3, "ARCHIVED", 3, Mae(1234, 4))},
      {RegistryRow(1, "PRODUCTION", 1, Mae(1234, 4)),
       RegistryRow(2, "PRODUCTION", 1, Mae(12, 6))},
      {RegistryRow(i, IF i = MaxRows THEN "PRODUCTION" ELSE "ARCHIVED", Stamp(i),
                   IF i = MaxRows THEN Mae(2500, 5) ELSE Mae(12, 6)) : i \in 1..MaxRows} }

DriftContents ==
    { {},
      {DriftRow(1, 3, "Y_STD", "WARNING")},
      {DriftRow(1, 1, "Y_MEAN", "CRITICAL"), DriftRow(2, 1, "Y_MEAN", "NORMAL")},
      {DriftRow(i, Stamp(i), IF i % 2 = 0 THEN "Y_MEAN" ELSE "Y_STD", "NORMAL")
          : i \in 1..MaxRows} }
    \cup
    { {DriftRow(1, 1, "Y_MEAN", IF s = "NORMAL" THEN "WARNING" ELSE "NORMAL"),
       DriftRow(2, 2, "Y_MEAN", s),
       DriftRow(3, 3, "Y_STD", "BASELINE")} : s \in DriftStatuses }

ComparisonContents ==
    { {},
      {ComparisonRow(i, Stamp(i)) : i \in 1..MaxRows} }

RunContents ==
    { {},
      {RunRow(i, Stamp(i)) : i \in 1..MaxRows} }

RunLogContents ==
    { {},
      {RunLogRow(i, Stamp(i)) : i \in 1..MaxRows} }

\* RAW_SALES and FEATURE_STORE are read through COUNT(*) only: the model keeps
\* their number of rows.
RawContents == {0, 2500000}

FeatureContents == {0, 48000}

Contents(t) ==
    CASE t = "MODEL_REGISTRY" -> RegistryContents
      [] t = "DRIFT_METRICS" -> DriftContents
      [] t = "MODEL_COMPARISON_LOG" -> ComparisonContents
      [] t = "PIPELINE_RUNS" -> RunContents
      [] t = "PIPELINE_RUN_LOG" -> RunLogContents
      [] t = "RAW_SALES" -> RawContents
      [] OTHER -> FeatureContents

PopulatedWarehouse ==
    [t \in Tables |->
        CASE t = "MODEL_REGISTRY" ->
                {RegistryRow(1, "PRODUCTION", 1, Mae(999, 5)),
                 RegistryRow(2, "PRODUCTION", 2, Mae(0, 5)),
                 RegistryRow(3, "ARCHIVED", 3, Mae(1234, 4))}
          [] t = "DRIFT_METRICS" ->
                {DriftRow(1, 1, "Y_MEAN", "NORMAL"),
                 DriftRow(2, 2, "Y_MEAN", "WARNING"),
                 DriftRow(3, 3, "Y_STD", "BASELINE")}
          [] t = "MODEL_COMPARISON_LOG" -> {ComparisonRow(i, i) : i \in 1..3}
          [] t = "PIPELINE_RUNS" -> {RunRow(i, i) : i \in 1..(MaxRows - 1)}
          [] t = "PIPELINE_RUN_LOG" -> {RunLogRow(1, 1), RunLogRow(2, 2)}
          [] t = "RAW_SALES" -> 2500000
          [] OTHER -> 48000]

\* ----------------------------------------------------------------- SQL
\* SELECT <cols>: the projection of one row.
Select(cols, r) == [c \in cols |-> r[c]]

\* Mutant of OrderByDesc: ORDER BY col ASC.
RECURSIVE OrderByAsc(_, _)
OrderByAsc(T, col) ==
    IF T = {} THEN {<<>>}
    ELSE LET bottom == {r \in T : \A o \in T : r[col] <= o[col]}
         IN UNION { {<<r>> \o s : s \in OrderByAsc(T \ {r}, col)} : r \in bottom }

\* All orderings of the rows T by column col descending; rows that tie on col
\* come in any order.
RECURSIVE OrderByDesc(_, _)
OrderByDesc(T, col) ==
    IF T = {} THEN {<<>>}
    ELSE LET top == {r \in T : \A o \in T : o[col] <= r[col]}
         IN UNION { {<<r>> \o s : s \in OrderByDesc(T \ {r}, col)} : r \in top }

\* LIMIT n of an ordered result.
Limit(s, n) == SubSeq(s, 1, Min(n, Len(s)))

\* No ORDER BY: the first n rows of T in any order.
RECURSIVE Unordered(_, _)
Unordered(T, n) ==
    IF n = 0 \/ T = {} THEN {<<>>}
    ELSE UNION { {<<r>> \o s : s \in Unordered(T \ {r}, n - 1)} : r \in T }

Project(cols, s) == [i \in 1..Len(s) |-> Select(cols, s[i])]

\* ------------------------------------------------------------- the queries
\* The queries in the order the script issues them (lines 19, 33, 34, 46, 67,
\* 80, 103, 122, 140).
QueryOrder ==
    <<"prod_model", "raw_count", "feature_count", "model_df", "drift_df",
      "latest_drift", "comparison_df", "runs_df", "log_df">>

Queries == Range(QueryOrder)

Index(q) == CHOOSE i \in 1..Len(QueryOrder) : QueryOrder[i] = q

\* The text of each statement: FROM, SELECT list (or COUNT(*)), WHERE
\* column = literal, ORDER BY column DESC and LIMIT; "" and 0 stand for a
\* clause the statement does not have.
Sql(table, cols, count, whereCol, whereVal, orderBy, limit) ==
    [table |-> table, cols |-> cols, count |-> count, whereCol |-> whereCol,
     whereVal |-> whereVal, orderBy |-> orderBy, limit |-> limit]

prod_model ==
    Sql("MODEL_REGISTRY", {"MODEL_VERSION", "MAE", "TRAINING_DATE"}, FALSE,
        "STATUS", "PRODUCTION", "", Limit1)

raw_count == Sql("RAW_SALES", {"CNT"}, TRUE, "", "", "", 0)

feature_count == Sql("FEATURE_STORE", {"CNT"}, TRUE, "", "", "", 0)

model_df ==
    Sql("MODEL_REGISTRY",
        {"MODEL_VERSION", "MODEL_TYPE", "STATUS", "TRAINING_DATE", "MAE", "RMSE", "MAPE",
         "NOTES"}, FALSE, "", "", "TRAINING_DATE", Limit10)

drift_df ==
    Sql("DRIFT_METRICS",
        {"CHECK_DATE", "METRIC_NAME", "BASELINE_VALUE", "CURRENT_VALUE", "DRIFT_SCORE",
         "DRIFT_STATUS"}, FALSE, "", "", "CHECK_DATE", Limit10)

latest_drift ==
    Sql("DRIFT_METRICS", {"DRIFT_STATUS"}, FALSE, "METRIC_NAME", "Y_MEAN", "CHECK_DATE",
        Limit1)

comparison_df ==
    Sql("MODEL_COMPARISON_LOG",
        {"COMPARISON_DATE", "PRODUCTION_MODEL_VERSION", "CANDIDATE_MODEL_VERSION",
         "PRODUCTION_MAE", "CANDIDATE_MAE", "IMPROVEMENT_PERCENT", "DECISION",
         "DECISION_REASON"}, FALSE, "", "", "COMPARISON_DATE", Limit10)

runs_df ==
    Sql("PIPELINE_RUNS", {"RUN_TIME", "PHASE", "STATUS", "RECORDS_PROCESSED"}, FALSE,
        "", "", "RUN_TIME", Limit10)

log_df ==
    Sql("PIPELINE_RUN_LOG", {"RUN_TIME", "NEW_ROWS", "TRIGGER_TYPE"}, FALSE,
        "", "", "RUN_TIME", Limit10)

SqlOf(q) ==
    CASE q = "prod_model" -> prod_model
      [] q = "raw_count" -> raw_count
      [] q = "feature_count" -> feature_count
      [] q = "model_df" -> model_df
      [] q = "drift_df" -> drift_df
      [] q = "latest_drift" -> latest_drift
      [] q = "comparison_df" -> comparison_df
      [] q = "runs_df" -> runs_df
      [] OTHER -> log_df

\* session.sql(q).collect() / .to_pandas(): the results the warehouse w may
\* return for query q.
session_sql(q, w) ==
    LET st == SqlOf(q)
    IN IF st.count
       THEN {<<[CNT |-> w[st.table]]>>}
       ELSE LET T == {r \in w[st.table] : st.whereCol = "" \/ r[st.whereCol] = st.whereVal}
                n == IF st.limit = 0 THEN Cardinality(T) ELSE st.limit
            IN {Project(st.cols, Limit(s, n)) :
                  s \in IF st.orderBy = "" THEN Unordered(T, n)
                        ELSE OrderByDesc(T, st.orderBy)}

\* Mutant of AfterQuery: the statement truncates the table it reads.
AfterQueryWrites(q, w) ==
    [w EXCEPT ![SqlOf(q).table] = IF SqlOf(q).count THEN 0 ELSE {}]

\* Every statement the script sends is a SELECT: the warehouse after it ran.
AfterQuery(q, w) == w

\* ------------------------------------------------------------- formatting
Pad3(k) ==
    IF k < 10 THEN "00" \o ToString(k)
    ELSE IF k < 100 THEN "0" \o ToString(k) ELSE ToString(k)

\* f"{n:,}" of a non-negative integer.
RECURSIVE Thousands(_)
Thousands(n) ==
    IF n < 1000 THEN ToString(n)
    ELSE Thousands(n \div 1000) \o "," \o Pad3(n % 1000)

\* Mutant of RoundHalfEven: a tie rounds up.
RoundHalfUp(m) == IF m.tenths < 5 THEN m.whole ELSE m.whole + 1

\* Rounding to zero decimals as the "f" presentation type does: to nearest,
\* a tie to the even neighbour.
RoundHalfEven(m) ==
    IF m.tenths < 5 THEN m.whole
    ELSE IF m.tenths > 5 THEN m.whole + 1
    ELSE IF m.whole % 2 = 0 THEN m.whole ELSE m.whole + 1

\* f"{mae:,.0f}"
FormatMae(m) == Thousands(RoundHalfEven(m))

\* -------------------------------------------------------------- rendering
Widget(panel, kind, label, body, rows) ==
    [panel |-> panel, kind |-> kind, label |-> label, body |-> body, rows |-> rows]

Divider == Widget("page", "markdown", "", "---", <<>>)

Subheader(text) == Widget("page", "subheader", "", text, <<>>)

\* Lines 9-11.
Header == <<Widget("page", "title", "", "MLOps Production Dashboard", <<>>), Divider>>

\* Lines 25-30.
render_prod_model(rows) ==
    IF Len(rows) > 0
    THEN <<Widget("prod_model", "metric", "Production Model", rows[1].MODEL_VERSION, <<>>),
           Widget("prod_model", "metric", "MAE", FormatMae(rows[1].MAE), <<>>)>>
    ELSE <<Widget("prod_model", "metric", "Production Model", "None", <<>>),
           Widget("prod_model", "metric", "MAE", "N/A", <<>>)>>

\* Lines 36-37; raw and feature are the values of raw_count and feature_count.
render_counts(raw, feature) ==
    <<Widget("raw_count", "metric", "Raw Records", Thousands(raw), <<>>),
      Widget("feature_count", "metric", "Features", Thousands(feature), <<>>)>>

\* Mutant of render_table: no empty-state branch.
render_table_always(panel, df, placeholder) == <<Widget(panel, "dataframe", "", "", df)>>

\* Mutant of render_table: st.dataframe(df.head()).
render_table_head(panel, df, placeholder) ==
    IF Len(df) > 0
    THEN <<Widget(panel, "dataframe", "", "", SubSeq(df, 1, Min(5, Len(df))))>>
    ELSE <<Widget(panel, "info", "", placeholder, <<>>)>>

\* if len(df) > 0: st.dataframe(df) else: st.info(placeholder)
render_table(panel, df, placeholder) ==
    IF Len(df) > 0
    THEN <<Widget(panel, "dataframe", "", "", df)>>
    ELSE <<Widget(panel, "info", "", placeholder, <<>>)>>

\* Mutant of render_latest_drift: BASELINE is not among the success values.
render_latest_drift_strict(rows) ==
    IF Len(rows) > 0
    THEN LET status == rows[1].DRIFT_STATUS
         IN IF status = "NORMAL"
            THEN <<Widget("latest_drift", "success", "", "Drift Status: " \o status, <<>>)>>
            ELSE IF status = "WARNING"
            THEN <<Widget("latest_drift", "warning", "", "Drift Status: " \o status, <<>>)>>
            ELSE <<Widget("latest_drift", "error", "", "Drift Status: " \o status, <<>>)>>
    ELSE <<Widget("latest_drift", "info", "", "No drift data", <<>>)>>

\* Lines 86-95.
render_latest_drift(rows) ==
    IF Len(rows) > 0
    THEN LET status == rows[1].DRIFT_STATUS
         IN IF status = "NORMAL" \/ status = "BASELINE"
            THEN <<Widget("latest_drift", "success", "", "Drift Status: " \o status, <<>>)>>
            ELSE IF status = "WARNING"
            THEN <<Widget("latest_drift", "warning", "", "Drift Status: " \o status, <<>>)>>
            ELSE <<Widget("latest_drift", "error", "", "Drift Status: " \o status, <<>>)>>
    ELSE <<Widget("latest_drift", "info", "", "No drift data", <<>>)>>

Placeholder(q) ==
    CASE q = "model_df" -> "No models trained yet"
      [] q = "drift_df" -> "No drift data yet"
      [] q = "comparison_df" -> "No comparisons logged yet"
      [] q = "runs_df" -> "No pipeline runs yet"
      [] OTHER -> "No data load triggers yet"

\* What the script renders between the return of query q and the next query
\* (or the end of the script); l holds the script's result variables, the
\* result of q included.
Render(q, l) ==
    CASE q = "prod_model" -> render_prod_model(l[q])
      [] q = "raw_count" -> <<>>
      [] q = "feature_count" ->
            render_counts(l["raw_count"][1].CNT, l[q][1].CNT)
            \o <<Divider, Subheader("Model Training History")>>
      [] q = "model_df" ->
            render_table(q, l[q], Placeholder(q))
            \o <<Divider, Subheader("Data Drift Monitoring")>>
      [] q = "drift_df" -> render_table(q, l[q], Placeholder(q))
      [] q = "latest_drift" ->
            render_latest_drift(l[q])
            \o <<Divider, Subheader("Model Comparison History")>>
      [] q = "comparison_df" ->
            render_table(q, l[q], Placeholder(q))
            \o <<Divider, Subheader("Pipeline Run History")>>
      [] q = "runs_df" ->
            render_table(q, l[q], Placeholder(q))
            \o <<Divider, Subheader("Data Load Triggers")>>
      [] OTHER ->
            render_table(q, l[q], Placeholder(q))
            \o <<Divider,
                 Widget("page", "caption", "",
                        "MLOps Production Pipeline Dashboard | Auto-refreshes with new data",
                        <<>>)>>

\* The statement that follows the rendering after query q.
NextPc(q) == IF Index(q) < Len(QueryOrder) THEN QueryOrder[Index(q) + 1] ELSE "done"

\* Mutant of OnFailure: the exception is caught and the script goes on.
OnFailureCaught(q) == NextPc(q)

\* No try/except surrounds any query: an exception ends the script.
OnFailure(q) == "error"

\* ------------------------------------------------------------------ state
NoLocals == [q \in Queries |-> <<>>]

NoPrev == [done |-> FALSE, view |-> <<>>, epoch |-> 0]

Init ==
    /\ warehouse = PopulatedWarehouse
    /\ pc = "idle"
    /\ inflight = {}
    /\ locals = NoLocals
    /\ log = <<>>
    /\ view = <<>>
    /\ pass = 0
    /\ changes = 0
    /\ passEpoch = 0
    /\ raised = ""
    /\ prev = NoPrev

\* Mutant of StartPass: a completed page is cached; a rerun serves it and
\* issues no query.
StartPassCached ==
    /\ pc \in {"idle", "done", "error"}
    /\ pass < MaxPasses
    /\ pass' = pass + 1
    /\ prev' = IF pc = "done"
               THEN [done |-> TRUE, view |-> view, epoch |-> passEpoch]
               ELSE NoPrev
    /\ passEpoch' = changes
    /\ raised' = ""
    /\ IF pc = "done"
       THEN pc' = "done" /\ UNCHANGED <<locals, log, view>>
       ELSE pc' = QueryOrder[1] /\ locals' = NoLocals /\ log' = <<>> /\ view' = Header
    /\ UNCHANGED <<warehouse, inflight, changes>>

\* The host (re)runs the script from the top: lines 6-16.
StartPass ==
    /\ pc \in {"idle", "done", "error"}
    /\ pass < MaxPasses
    /\ pass' = pass + 1
    /\ prev' = IF pc = "done"
               THEN [done |-> TRUE, view |-> view, epoch |-> passEpoch]
               ELSE NoPrev
    /\ passEpoch' = changes
    /\ raised' = ""
    /\ locals' = NoLocals
    /\ log' = <<>>
    /\ view' = Header
    /\ pc' = QueryOrder[1]
    /\ UNCHANGED <<warehouse, inflight, changes>>

\* session.sql(q) is sent to the warehouse.
Issue(q) ==
    /\ pc = q
    /\ q \notin inflight
    /\ inflight' = inflight \cup {q}
    /\ log' = Append(log, q)
    /\ UNCHANGED <<warehouse, pc, locals, view, pass, changes, passEpoch, raised, prev>>

\* Mutant of Complete: the script goes on while the session still holds the
\* query as running.
CompleteAsync(q) ==
    /\ pc = q
    /\ q \in inflight
    /\ \E rows \in session_sql(q, warehouse) :
          /\ locals' = [locals EXCEPT ![q] = rows]
          /\ view' = view \o Render(q, locals')
    /\ warehouse' = AfterQuery(q, warehouse)
    /\ pc' = NextPc(q)
    /\ UNCHANGED <<inflight, log, pass, changes, passEpoch, raised, prev>>

\* The query returns its rows; the script binds them to its variable and runs
\* on to the next query.
Complete(q) ==
    /\ pc = q
    /\ q \in inflight
    /\ \E rows \in session_sql(q, warehouse) :
          /\ locals' = [locals EXCEPT ![q] = rows]
          /\ view' = view \o Render(q, locals')
    /\ warehouse' = AfterQuery(q, warehouse)
    /\ inflight' = inflight \ {q}
    /\ pc' = NextPc(q)
    /\ UNCHANGED <<log, pass, changes, passEpoch, raised, prev>>

\* The query raises (connectivity, permission, missing object).
Fail(q) ==
    /\ pc = q
    /\ q \in inflight
    /\ inflight' = inflight \ {q}
    /\ raised' = q
    /\ pc' = OnFailure(q)
    /\ UNCHANGED <<warehouse, locals, log, view, pass, changes, passEpoch, prev>>

\* An external job (training, monitoring, ingestion) rewrites one table.  The
\* model interleaves these jobs between passes: a running pass reads one
\* snapshot of the warehouse.  A change after the last pass explored is seen
\* by no pass and is left out.
WarehouseChange ==
    /\ changes < MaxChanges
    /\ pass < MaxPasses
    /\ pc \notin Queries
    /\ \E t \in Tables : \E c \in Contents(t) \ {warehouse[t]} :
          warehouse' = [warehouse EXCEPT ![t] = c]
    /\ changes' = changes + 1
    /\ UNCHANGED <<pc, inflight, locals, log, view, pass, passEpoch, raised, prev>>

Next ==
    \/ StartPass
    \/ \E q \in Queries : Issue(q)
    \/ \E q \in Queries : Complete(q)
    \/ \E q \in Queries : Fail(q)
    \/ WarehouseChange

Spec == Init /\ [][Next]_vars

\* ========================================================================
\* Properties
\* ========================================================================
\* The widgets a panel has in the view, in the order they were rendered.
PanelWidgets(p) == SelectSeq(view, LAMBDA w : w.panel = p)

\* Query q of the current pass has returned its rows to the script.
Returned(q) ==
    /\ q \in Range(log)
    /\ pc # q
    /\ raised # q

\* The seven panels of the data model (the two count metrics are not among them).
Panels7 ==
    {"prod_model", "model_df", "drift_df", "latest_drift", "comparison_df", "runs_df",
     "log_df"}

TablePanels == {"model_df", "drift_df", "comparison_df", "runs_df", "log_df"}

\* ------------------------------------------------------------------- C1
\* The callout expected for a status string: severity and literal text.
ExpectedCallout(status) ==
    CASE status = "NORMAL" -> [kind |-> "success", body |-> "Drift Status: NORMAL"]
      [] status = "BASELINE" -> [kind |-> "success", body |-> "Drift Status: BASELINE"]
      [] status = "WARNING" -> [kind |-> "warning", body |-> "Drift Status: WARNING"]
      [] status = "CRITICAL" -> [kind |-> "error", body |-> "Drift Status: CRITICAL"]
      [] status = "UNKNOWN" -> [kind |-> "error", body |-> "Drift Status: UNKNOWN"]
      [] OTHER -> [kind |-> "none", body |-> ""]

\* C1: whenever the latest-drift query returned a row, the drift-status panel
\* holds exactly one callout; its severity is success for NORMAL and BASELINE,
\* warning for WARNING and error for CRITICAL and for every other string, and
\* its text carries the status string as returned.
C1_DriftCallout ==
    (Returned("latest_drift") /\ Len(locals["latest_drift"]) > 0) =>
        LET ws == PanelWidgets("latest_drift")
            status == locals["latest_drift"][1].DRIFT_STATUS
        IN /\ Len(ws) = 1
           /\ ws[1].kind = ExpectedCallout(status).kind
           /\ ws[1].body = ExpectedCallout(status).body

C1_Witness ==
    /\ Returned("latest_drift")
    /\ Len(locals["latest_drift"]) > 0
    /\ locals["latest_drift"][1].DRIFT_STATUS = "UNKNOWN"
    /\ PanelWidgets("latest_drift")[1].kind = "error"

\* ------------------------------------------------------------------- C2
ExpectedPlaceholder(p) ==
    CASE p = "model_df" -> "No models trained yet"
      [] p = "drift_df" -> "No drift data yet"
      [] p = "latest_drift" -> "No drift data"
      [] p = "comparison_df" -> "No comparisons logged yet"
      [] p = "runs_df" -> "No pipeline runs yet"
      [] p = "log_df" -> "No data load triggers yet"
      [] OTHER -> "None"

EmptyResult(p) == Returned(p) /\ Len(locals[p]) = 0

\* C2 as stated: for each of the seven panels, a result of zero rows makes the
\* panel show its placeholder text and neither a table nor a metric widget.
C2_Original ==
    \A p \in Panels7 :
        EmptyResult(p) =>
            LET ws == PanelWidgets(p)
            IN /\ \E i \in 1..Len(ws) : ws[i].body = ExpectedPlaceholder(p)
               /\ \A i \in 1..Len(ws) : ws[i].kind \notin {"dataframe", "metric"}

\* C2 amended: for the six panels other than the production model, a result of
\* zero rows makes the panel show exactly one informational notice with the
\* panel's placeholder text and no table, metric or callout; the production
\* model panel shows its placeholders "None" and "N/A" in its two metric
\* widgets.
C2_Placeholder ==
    /\ \A p \in Panels7 \ {"prod_model"} :
          EmptyResult(p) =>
              LET ws == PanelWidgets(p)
              IN /\ Len(ws) = 1
                 /\ ws[1].kind = "info"
                 /\ ws[1].body = ExpectedPlaceholder(p)
    /\ EmptyResult("prod_model") =>
          LET ws == PanelWidgets("prod_model")
          IN /\ Len(ws) = 2
             /\ ws[1].kind = "metric" /\ ws[1].body = "None"
             /\ ws[2].kind = "metric" /\ ws[2].body = "N/A"

C2_Witness ==
    /\ pc = "done"
    /\ EmptyResult("prod_model")
    /\ EmptyResult("model_df")
    /\ PanelWidgets("prod_model")[1].body = "None"
    /\ PanelWidgets("model_df")[1].kind = "info"

\* ------------------------------------------------------------------- C3
\* C3: for each of the seven panels, a result of N rows, 1 <= N <= 10, is
\* rendered as exactly those N rows in the order returned and without a
\* placeholder: a table panel shows one table holding the returned rows, the
\* production model panel shows the version of the returned row, the
\* drift-status panel one callout for the status of the returned row.
C3_RowsPreserved ==
    \A p \in Panels7 :
        (Returned(p) /\ Len(locals[p]) >= 1 /\ Len(locals[p]) <= 10) =>
            LET ws == PanelWidgets(p)
            IN /\ \A i \in 1..Len(ws) :
                    /\ ws[i].kind # "info"
                    /\ ws[i].body \notin {ExpectedPlaceholder(p), "N/A"}
               /\ p \in TablePanels =>
                    /\ Len(ws) = 1
                    /\ ws[1].kind = "dataframe"
                    /\ Len(ws[1].rows) = Len(locals[p])
                    /\ \A i \in 1..Len(locals[p]) : ws[1].rows[i] = locals[p][i]
               /\ p = "prod_model" =>
                    /\ Len(ws) = 2
                    /\ ws[1].body = locals[p][1].MODEL_VERSION
               /\ p = "latest_drift" =>
                    /\ Len(ws) = 1
                    /\ ws[1].kind \in {"success", "warning", "error"}
                    /\ ws[1].body = "Drift Status: " \o locals[p][1].DRIFT_STATUS

C3_Witness ==
    /\ Returned("runs_df")
    /\ Len(locals["runs_df"]) = 10
    /\ PanelWidgets("runs_df")[1].rows = locals["runs_df"]
    /\ locals["runs_df"][1].RUN_TIME > locals["runs_df"][10].RUN_TIME

\* ------------------------------------------------------------------- C4
\* f"{mae:,.0f}" of the MAE values the explored registries hold, as Python
\* prints them.
ExpectedMaeText(m) ==
    CASE m = Mae(1234567, 0) -> "1,234,567"
      [] m = Mae(999, 5) -> "1,000"
      [] m = Mae(0, 5) -> "0"
      [] m = Mae(1234, 4) -> "1,234"
      [] m = Mae(12, 6) -> "13"
      [] m = Mae(2500, 5) -> "2,500"
      [] OTHER -> "?"

\* C4: once the production-model query has returned, the panel shows the
\* metrics "Production Model" and "MAE": "None" and "N/A" for zero rows, else
\* the row's model version and its MAE with thousands separators and zero
\* decimals; in both cases the next statement is the raw-record count query,
\* and a pass that completes shows the raw-record and feature count metrics.
C4_ProductionMetrics ==
    /\ Returned("prod_model") =>
          LET ws == PanelWidgets("prod_model")
              rows == locals["prod_model"]
          IN /\ Len(ws) = 2
             /\ ws[1].kind = "metric" /\ ws[1].label = "Production Model"
             /\ ws[2].kind = "metric" /\ ws[2].label = "MAE"
             /\ Len(rows) = 0 => (ws[1].body = "None" /\ ws[2].body = "N/A")
             /\ Len(rows) > 0 =>
                   /\ ws[1].body = rows[1].MODEL_VERSION
                   /\ ws[2].body = ExpectedMaeText(rows[1].MAE)
             /\ log = <<"prod_model">> => pc = "raw_count"
    /\ pc = "done" =>
          /\ Len(PanelWidgets("raw_count")) = 1
          /\ Len(PanelWidgets("feature_count")) = 1

C4_Witness ==
    /\ pc = "done"
    /\ Len(locals["prod_model"]) = 1
    /\ locals["prod_model"][1].MAE = Mae(999, 5)
    /\ PanelWidgets("prod_model")[2].body = "1,000"
    /\ PanelWidgets("raw_count")[1].body = "2,500,000"

\* ------------------------------------------------------------------- C5
\* The panels in the order the dashboard processes them.
ExpectedOrder ==
    <<"prod_model", "raw_count", "feature_count", "model_df", "drift_df",
      "latest_drift", "comparison_df", "runs_df", "log_df">>

IsPrefix(s, t) == Len(s) <= Len(t) /\ \A i \in 1..Len(s) : s[i] = t[i]

\* At most one query in flight, issued in the fixed order, each one only
\* after the one before it returned.
Serial ==
    /\ Cardinality(inflight) <= 1
    /\ IsPrefix(log, ExpectedOrder)
    /\ \A i \in 1..(Len(log) - 1) : Returned(log[i])
    /\ \A q \in inflight : pc = q /\ Last(log) = q

\* C5 as stated: at most one query is in flight, the queries are issued in the
\* fixed order, and when a query is issued every earlier panel's query has
\* returned and its panel is rendered.
C5_Original ==
    /\ Serial
    /\ \A i \in 1..(Len(log) - 1) : Len(PanelWidgets(log[i])) > 0

\* C5 amended: at most one query is in flight, the queries are issued in the
\* fixed order, and when a query is issued every earlier query has returned
\* and every earlier panel is rendered, except the raw-count metric, which is
\* rendered only once the feature-count query has returned.
C5_Serial ==
    /\ Serial
    /\ \A i \in 1..(Len(log) - 1) :
          log[i] # "raw_count" => Len(PanelWidgets(log[i])) > 0
    /\ Len(PanelWidgets("raw_count")) > 0 <=> Returned("feature_count")

C5_Witness ==
    /\ inflight = {"feature_count"}
    /\ Returned("raw_count")
    /\ Len(PanelWidgets("raw_count")) = 0
    /\ Len(PanelWidgets("prod_model")) = 2

\* ------------------------------------------------------------------- C6
C6_State ==
    raised # "" =>
        /\ pc = "error"
        /\ inflight = {}
        /\ Len(log) > 0 /\ Last(log) = raised
        /\ IsPrefix(log, ExpectedOrder)
        /\ \A i \in 1..Len(view) :
              \/ view[i].panel = "page"
              \/ \E j \in 1..(Len(log) - 1) : log[j] = view[i].panel
        /\ raised = "feature_count" => Len(PanelWidgets("raw_count")) = 0

C6_Step ==
    (raised' # "" /\ pass' = pass) =>
        /\ view' = view
        /\ log' = log
        /\ locals' = locals
        /\ pc' = "error"

\* C6: a query failure is not caught.  The pass is then in the error state
\* with no query in flight; the failed query is the last one issued (no retry,
\* no fallback, no query of a later panel); the view holds nothing of the
\* failing panel or of a later one; and from the failure on the pass changes
\* neither the view nor the queries issued.
C6_FailureHalts == [](C6_State) /\ [][C6_Step]_vars

C6_Witness ==
    /\ raised = "drift_df"
    /\ pc = "error"
    /\ Len(PanelWidgets("model_df")) = 1
    /\ Len(PanelWidgets("drift_df")) = 0
    /\ Len(log) = 5

\* ------------------------------------------------------------------- C7
\* The timestamp column of each table query.
TimestampColumn(q) ==
    CASE q = "model_df" -> "TRAINING_DATE"
      [] q \in {"drift_df", "latest_drift"} -> "CHECK_DATE"
      [] q = "comparison_df" -> "COMPARISON_DATE"
      [] OTHER -> "RUN_TIME"

\* res is the n most recent rows of T by column col, most recent first, as
\* seen through the projection on cols (which keeps col).
IsTopN(res, T, cols, col, n) ==
    /\ Len(res) = Min(n, Cardinality(T))
    /\ \A i \in 1..Len(res) : \E r \in T : res[i] = Select(cols, r)
    /\ \A i, j \in 1..Len(res) : i < j => (res[i] # res[j] /\ res[i][col] >= res[j][col])
    /\ \A r \in T : Select(cols, r) \notin Range(res) => r[col] <= res[Len(res)][col]

\* The result the script holds for query q is one the warehouse w gives.
FreshResult(q, w) ==
    LET res == locals[q]
    IN CASE q \in TablePanels ->
                IsTopN(res, w[SqlOf(q).table], SqlOf(q).cols, TimestampColumn(q), 10)
         [] q = "latest_drift" ->
                LET Y == {r \in w["DRIFT_METRICS"] : r.METRIC_NAME = "Y_MEAN"}
                IN /\ Len(res) = Min(1, Cardinality(Y))
                   /\ Len(res) = 1 =>
                         \E r \in Y : /\ res[1] = [DRIFT_STATUS |-> r.DRIFT_STATUS]
                                      /\ \A o \in Y : o.CHECK_DATE <= r.CHECK_DATE
         [] q = "prod_model" ->
                LET P == {r \in w["MODEL_REGISTRY"] : r.STATUS = "PRODUCTION"}
                IN /\ Len(res) = Min(1, Cardinality(P))
                   /\ Len(res) = 1 =>
                         \E r \in P : res[1] = Select({"MODEL_VERSION", "MAE", "TRAINING_DATE"}, r)
         [] q = "raw_count" -> res = <<[CNT |-> w["RAW_SALES"]]>>
         [] OTHER -> res = <<[CNT |-> w["FEATURE_STORE"]]>>

\* The production-model query returned the most recently trained production row.
MostRecentProduction(w) ==
    LET P == {r \in w["MODEL_REGISTRY"] : r.STATUS = "PRODUCTION"}
        res == locals["prod_model"]
    IN Len(res) = 1 => \A o \in P : o.TRAINING_DATE <= res[1].TRAINING_DATE

\* C7 as stated: a complete pass issues exactly seven queries against seven
\* distinct tables, each ordered by a timestamp descending and capped at 1 or
\* 10 rows; no result has more than 10 rows and a 1-row panel receives the
\* most recent row.
C7_Original ==
    pc = "done" =>
        /\ Len(log) = 7
        /\ Cardinality({SqlOf(q).table : q \in Range(log)}) = 7
        /\ \A q \in Range(log) :
              /\ SqlOf(q).orderBy # ""
              /\ SqlOf(q).limit \in {1, 10}
              /\ Len(locals[q]) <= 10
        /\ changes = passEpoch =>
              /\ FreshResult("latest_drift", warehouse)
              /\ MostRecentProduction(warehouse)

OrderedQueries ==
    {"model_df", "drift_df", "latest_drift", "comparison_df", "runs_df", "log_df"}

\* C7 amended: a complete pass issues exactly nine queries, each once, against
\* seven distinct tables.  The five table queries and the drift-status query
\* are ordered by a timestamp descending and capped at 10 and 1 rows: each
\* returns the most recent rows, most recent first.  The production-model
\* query is capped at 1 row and not ordered: it returns some production row.
\* The two count queries return one row.  No result has more than 10 rows.
\* (The results are compared with the warehouse while no external job has
\* changed it since the pass started.)
C7_Queries ==
    pc = "done" =>
        /\ log = ExpectedOrder
        /\ Cardinality({SqlOf(q).table : q \in Range(log)}) = 7
        /\ \A q \in OrderedQueries :
              /\ SqlOf(q).orderBy = TimestampColumn(q)
              /\ SqlOf(q).limit = IF q = "latest_drift" THEN 1 ELSE 10
        /\ SqlOf("prod_model").orderBy = "" /\ SqlOf("prod_model").limit = 1
        /\ \A q \in Range(log) :
              /\ Len(locals[q]) <= 10
              /\ changes = passEpoch => FreshResult(q, warehouse)

C7_Witness ==
    /\ pc = "done"
    /\ Len(locals["model_df"]) = 10
    /\ Cardinality(warehouse["MODEL_REGISTRY"]) > 10
    /\ Len(locals["latest_drift"]) = 1
    /\ Len(locals["prod_model"]) = 1

\* ------------------------------------------------------------------- C8
\* The whole page as the results l determine it.
RECURSIVE PageUpTo(_, _)
PageUpTo(n, l) ==
    IF n = 0 THEN Header ELSE PageUpTo(n - 1, l) \o Render(ExpectedOrder[n], l)

\* C8: nothing is cached.  Every complete pass, the first or a later one, has
\* issued each of the nine queries exactly once; every result it holds is one
\* the warehouse of that pass gives (compared while no external job has
\* changed it since the pass started), also when the warehouse changed since
\* the previous pass; and the view is the page those results determine.
C8_NoCache ==
    pc = "done" =>
        /\ log = ExpectedOrder
        /\ changes = passEpoch => \A q \in Range(ExpectedOrder) : FreshResult(q, warehouse)
        /\ view = PageUpTo(Len(ExpectedOrder), locals)

C8_Witness ==
    /\ pc = "done"
    /\ pass = 2
    /\ prev.done
    /\ prev.epoch < passEpoch
    /\ changes = passEpoch
    /\ prev.view # view
    /\ locals["raw_count"][1].CNT = 0
    /\ PanelWidgets("raw_count")[1].body = "0"

\* ------------------------------------------------------------------- C9
\* C9: every step other than a change made by an external job (a pass
\* starting, a query issued, returning or failing) leaves every warehouse
\* table as it was.
C9_ReadOnly == [][changes' = changes => warehouse' = warehouse]_vars

C9_Witness ==
    /\ pass = 2
    /\ raised = "comparison_df"
    /\ prev.done
    /\ changes = 0
    /\ warehouse = PopulatedWarehouse

\* ------------------------------------------------------------------ C10
\* C10 as stated: a complete pass that follows a complete pass, with the
\* warehouse unchanged since the earlier one started, renders the same view.
C10_Idempotent ==
    (pc = "done" /\ prev.done /\ prev.epoch = changes) => view = prev.view
====
